---- MODULE Spec2Model ----
(***************************************************************************)
(* Occupancy grid of WenzhiBai/UltrasonicGridMap: GridCell and GridSensor  *)
(* (src/grid_sensor.h) and GridMap (src/grid_map.h).                       *)
(*                                                                         *)
(* Numbers.  World coordinates are counted in half cells (0.05 m), so the  *)
(* default resolution of 0.1 m/cell is RESOLUTION = 2 units per cell and a *)
(* cell centre, origin + resolution * (idx + 0.5), is a whole number of    *)
(* units.  Log-odds values are counted in whole units of evidence; the     *)
(* saturation limit 50.0f is 50 of them.  The conversion of a double       *)
(* quotient to int truncates toward zero and is modelled by TruncDiv.      *)
(* EXT_ZONE is the source's margin scaled from 50 cells to 2 cells: the    *)
(* code uses it only as an index offset and in comparisons against the     *)
(* indices, the width and the height, and the grid sizes 1..MaxWidth and   *)
(* 1..MaxHeight lie on both sides of EXT_ZONE, 2*EXT_ZONE and 3*EXT_ZONE.  *)
(***************************************************************************)
EXTENDS Integers, Sequences, FiniteSets, TLC

\* ------------------------------------------------------------ constants
RESOLUTION == 2
EXT_ZONE == 2
SATURATION == 50

\* enum ExtZoneType
NONE == 0
TOP == 1
LEFT == 2
DOWN == 4
RIGHT == 8

\* ------------------------------------------------------------ bounds
MaxWidth == 7
MaxHeight == 7
\* grid sizes of the coordinate-query specification
MaxQueryWidth == 2
MaxQueryHeight == 2
\* origin-changing calls (extend_map, reset_map) made in one run
MaxCalls == 1
\* how far outside the grid (in units) a queried world position may lie
Margin == 2
\* magnitude of the sensor's log-odds increments
MaxInc == 3

VARIABLES
    width,          \* GridMap::_width
    height,         \* GridMap::_height
    origin,         \* GridMap::_origin, <<x, y>> in units
    map_data,       \* GridMap::_map_data, [0 .. width*height-1 -> log-odds]
    log_odds_hit,   \* GridSensor::_log_odds_hit
    log_odds_miss,  \* GridSensor::_log_odds_miss
    call,           \* the last call made: [op, args, out, ok]
    old,            \* the grid (as a record) when the last call was entered
    pos,            \* the agent's world position <<x, y>>
    pc,             \* where the caller stands: "idle", "returned" (it holds
                    \* the result of the last call), or in the maintenance
                    \* cycle "check" / "extend"
    ncalls          \* calls made so far

vars == <<width, height, origin, map_data, log_odds_hit, log_odds_miss,
          call, old, pos, pc, ncalls>>

\* ------------------------------------------------------------ helpers
\* floor(a / b), the rounding the claims name
FloorDiv(a, b) == a \div b

\* conversion double -> int of the quotient a / b (b > 0): toward zero
TruncDiv(a, b) == IF a >= 0 THEN a \div b ELSE -((-a) \div b)

Min(a, b) == IF a < b THEN a ELSE b
Max(a, b) == IF a > b THEN a ELSE b

\* ext_zone_type & bit
HasFlag(f, bit) == (f \div bit) % 2 = 1

\* ------------------------------------------------------------ GridCell
reset_value == 0

\* update with the limits compared by <= and >=
update_inclusive(val, mea_log_odds) ==
    IF (mea_log_odds > 0 /\ val <= SATURATION)
       \/ (mea_log_odds < 0 /\ val >= -SATURATION)
    THEN val + mea_log_odds
    ELSE val

update(val, mea_log_odds) ==
    IF (mea_log_odds > 0 /\ val < SATURATION)
       \/ (mea_log_odds < 0 /\ val > -SATURATION)
    THEN val + mea_log_odds
    ELSE val

\* ------------------------------------------------------------ GridMap
\* the object as a record, for the operators that read or rebuild it
Self == [width |-> width, height |-> height, origin |-> origin,
         map_data |-> map_data]

index_map(g, idx_x, idx_y) == idx_y * g.width + idx_x

set_origin(g, p) ==
    <<p[1] - (RESOLUTION * g.width) \div 2, p[2] - (RESOLUTION * g.height) \div 2>>

reset_map_data(g) == [i \in 0 .. g.width * g.height - 1 |-> reset_value]

\* init(resolution, width, height, center_pos)
init(w, h, center_pos) ==
    LET g == [width |-> w, height |-> h, origin |-> <<0, 0>>, map_data |-> <<>>]
    IN  [g EXCEPT !.origin = set_origin(g, center_pos),
                  !.map_data = reset_map_data(g)]

reset_map(g, p) ==
    [g EXCEPT !.origin = set_origin(g, p), !.map_data = reset_map_data(g)]

is_in_border(g, idx_x, idx_y) ==
    idx_x >= 0 /\ idx_x < g.width /\ idx_y >= 0 /\ idx_y < g.height

\* idx_to_xy giving the cell's far corner (idx + 1) instead of its centre
idx_to_xy_corner(g, idx_x, idx_y) ==
    [x |-> g.origin[1] + RESOLUTION * (idx_x + 1),
     y |-> g.origin[2] + RESOLUTION * (idx_y + 1),
     ok |-> is_in_border(g, idx_x, idx_y)]

idx_to_xy(g, idx_x, idx_y) ==
    [x |-> g.origin[1] + RESOLUTION * idx_x + RESOLUTION \div 2,
     y |-> g.origin[2] + RESOLUTION * idx_y + RESOLUTION \div 2,
     ok |-> is_in_border(g, idx_x, idx_y)]

\* xy_to_idx without the clamp of the failure branch
xy_to_idx_no_clamp(g, x, y) ==
    LET ix == TruncDiv(x - g.origin[1], RESOLUTION)
        iy == TruncDiv(y - g.origin[2], RESOLUTION)
    IN  [idx_x |-> ix, idx_y |-> iy, ok |-> is_in_border(g, ix, iy)]

xy_to_idx(g, x, y) ==
    LET ix == TruncDiv(x - g.origin[1], RESOLUTION)
        iy == TruncDiv(y - g.origin[2], RESOLUTION)
    IN  IF is_in_border(g, ix, iy)
        THEN [idx_x |-> ix, idx_y |-> iy, ok |-> TRUE]
        ELSE [idx_x |-> Max(0, Min(ix, g.width - 1)),
              idx_y |-> Max(0, Min(iy, g.height - 1)),
              ok |-> FALSE]

\* is_in_border(double x, double y) and is_in_border(pos)
is_in_border_xy(g, x, y) == xy_to_idx(g, x, y).ok

pos_to_idx(g, p) == xy_to_idx(g, p[1], p[2])

is_in_ext_zone(g, p) ==
    LET r == pos_to_idx(g, p)
    IN  IF r.ok
        THEN (IF r.idx_x < EXT_ZONE THEN LEFT ELSE 0)
             + (IF r.idx_x >= g.width - EXT_ZONE THEN RIGHT ELSE 0)
             + (IF r.idx_y < EXT_ZONE THEN DOWN ELSE 0)
             + (IF r.idx_y >= g.height - EXT_ZONE THEN TOP ELSE 0)
        ELSE NONE

\* ---- extend_map: the four in-place nested loops over the object g.
\* XxxRow is the inner loop over x for one y, XxxLoop the outer loop over y;
\* every iteration reads the _map_data the iterations before it have left.
RECURSIVE LeftRow(_, _, _)
LeftRow(g, y, x) ==
    IF x < 0 THEN g
    ELSE LeftRow(IF x < EXT_ZONE
                 THEN [g EXCEPT !.map_data[y * g.width + x] = reset_value]
                 ELSE [g EXCEPT !.map_data[y * g.width + x] =
                                    g.map_data[y * g.width + (x - EXT_ZONE)]],
                 y, x - 1)

RECURSIVE LeftLoop(_, _)
LeftLoop(g, y) ==
    IF y >= g.height THEN g
    ELSE LeftLoop(LeftRow(g, y, g.width - 1), y + 1)

\* the LEFT loops with x ascending, as the RIGHT branch runs
RECURSIVE LeftAscendingRow(_, _, _)
LeftAscendingRow(g, y, x) ==
    IF x >= g.width THEN g
    ELSE LeftAscendingRow(IF x < EXT_ZONE
                 THEN [g EXCEPT !.map_data[y * g.width + x] = reset_value]
                 ELSE [g EXCEPT !.map_data[y * g.width + x] =
                                    g.map_data[y * g.width + (x - EXT_ZONE)]],
                 y, x + 1)

RECURSIVE LeftAscendingLoop(_, _)
LeftAscendingLoop(g, y) ==
    IF y >= g.height THEN g
    ELSE LeftAscendingLoop(LeftAscendingRow(g, y, 0), y + 1)

RECURSIVE RightRow(_, _, _)
RightRow(g, y, x) ==
    IF x >= g.width THEN g
    ELSE RightRow(IF x >= g.width - EXT_ZONE
                 THEN [g EXCEPT !.map_data[y * g.width + x] = reset_value]
                 ELSE [g EXCEPT !.map_data[y * g.width + x] =
                                    g.map_data[y * g.width + (x + EXT_ZONE)]],
                 y, x + 1)

RECURSIVE RightLoop(_, _)
RightLoop(g, y) ==
    IF y >= g.height THEN g
    ELSE RightLoop(RightRow(g, y, 0), y + 1)

RECURSIVE DownRow(_, _, _)
DownRow(g, y, x) ==
    IF x >= g.width THEN g
    ELSE DownRow(IF y < EXT_ZONE
                 THEN [g EXCEPT !.map_data[y * g.width + x] = reset_value]
                 ELSE [g EXCEPT !.map_data[y * g.width + x] =
                                    g.map_data[(y - EXT_ZONE) * g.width + x]],
                 y, x + 1)

RECURSIVE DownLoop(_, _)
DownLoop(g, y) ==
    IF y < 0 THEN g
    ELSE DownLoop(DownRow(g, y, 0), y - 1)

RECURSIVE TopRow(_, _, _)
TopRow(g, y, x) ==
    IF x >= g.width THEN g
    ELSE TopRow(IF y >= g.height - EXT_ZONE
                 THEN [g EXCEPT !.map_data[y * g.width + x] = reset_value]
                 ELSE [g EXCEPT !.map_data[y * g.width + x] =
                                    g.map_data[(y + EXT_ZONE) * g.width + x]],
                 y, x + 1)

RECURSIVE TopLoop(_, _)
TopLoop(g, y) ==
    IF y >= g.height THEN g
    ELSE TopLoop(TopRow(g, y, 0), y + 1)

\* if (ext_zone_type & LEFT) { ... }; the first form runs x upward
extend_left_ascending(g) ==
    LeftAscendingLoop([g EXCEPT !.origin[1] = @ - EXT_ZONE * RESOLUTION], 0)

extend_left(g) ==
    LeftLoop([g EXCEPT !.origin[1] = @ - EXT_ZONE * RESOLUTION], 0)

\* if (ext_zone_type & RIGHT) { ... }; the first form leaves _origin alone
extend_right_no_origin(g) == RightLoop(g, 0)

extend_right(g) ==
    RightLoop([g EXCEPT !.origin[1] = @ + EXT_ZONE * RESOLUTION], 0)

\* if (ext_zone_type & DOWN) { ... }
extend_down(g) ==
    DownLoop([g EXCEPT !.origin[2] = @ - EXT_ZONE * RESOLUTION], g.height - 1)

\* if (ext_zone_type & TOP) { ... }
extend_top(g) ==
    TopLoop([g EXCEPT !.origin[2] = @ + EXT_ZONE * RESOLUTION], 0)

\* a chain of else-ifs in place of the four independent ifs
extend_map_first_flag_only(g, ext_zone_type) ==
    IF HasFlag(ext_zone_type, LEFT) THEN extend_left(g)
    ELSE IF HasFlag(ext_zone_type, RIGHT) THEN extend_right(g)
    ELSE IF HasFlag(ext_zone_type, DOWN) THEN extend_down(g)
    ELSE IF HasFlag(ext_zone_type, TOP) THEN extend_top(g)
    ELSE g

extend_map(g, ext_zone_type) ==
    IF ext_zone_type = NONE THEN g
    ELSE LET g1 == IF HasFlag(ext_zone_type, LEFT) THEN extend_left(g) ELSE g
             g2 == IF HasFlag(ext_zone_type, RIGHT) THEN extend_right(g1) ELSE g1
             g3 == IF HasFlag(ext_zone_type, DOWN) THEN extend_down(g2) ELSE g2
             g4 == IF HasFlag(ext_zone_type, TOP) THEN extend_top(g3) ELSE g3
         IN  g4

\* ------------------------------------------------------------ GridSensor
set_hit(val, hit) == update(val, hit)
set_miss(val, miss) == update(val, miss)

\* ------------------------------------------------------------ states
\* Cell contents a perception module can have left behind with increments
\* of +1 and -1: every cell a different non-zero value, none saturated.
Label(i) == IF i % 2 = 0 THEN i \div 2 + 1 ELSE -(i \div 2 + 1)

Observed(g) == [g EXCEPT !.map_data = [i \in DOMAIN g.map_data |-> Label(i)]]

Call(op, args, out, ok) == [op |-> op, args |-> args, out |-> out, ok |-> ok]

Store(g) ==
    /\ width' = g.width
    /\ height' = g.height
    /\ origin' = g.origin
    /\ map_data' = g.map_data

\* the world positions queried: the grid's rectangle and Margin units around it
WorldXs == (origin[1] - Margin) .. (origin[1] + RESOLUTION * width + Margin)
WorldYs == (origin[2] - Margin) .. (origin[2] + RESOLUTION * height + Margin)

\* GridMap(resolution, width, height, center_pos) with a sensor beside it
Constructed(w, h, center_pos, hit, miss) ==
    /\ width = w
    /\ height = h
    /\ origin = init(w, h, center_pos).origin
    /\ log_odds_hit = hit
    /\ log_odds_miss = miss
    /\ call = Call("init", <<w, h>>, <<>>, TRUE)
    /\ ncalls = 0

\* ------------------------------------------------------------ extension
InitExt ==
    \E w \in 1 .. MaxWidth, h \in 1 .. MaxHeight, seen \in BOOLEAN :
        LET g == IF seen THEN Observed(init(w, h, <<0, 0>>))
                 ELSE init(w, h, <<0, 0>>)
        IN  /\ Constructed(w, h, <<0, 0>>, 1, -1)
            /\ map_data = g.map_data
            /\ old = g
            /\ pos = <<0, 0>>
            /\ pc = "idle"

\* the caller has used what the last call returned and goes on
Return ==
    /\ pc = "returned"
    /\ pc' = "idle"
    /\ call' = Call("none", <<>>, <<>>, TRUE)
    /\ old' = Self
    /\ UNCHANGED <<width, height, origin, map_data, log_odds_hit, log_odds_miss,
                   pos, ncalls>>

ExtendMap(ext_zone_type) ==
    /\ pc = "idle"
    /\ ncalls < MaxCalls
    /\ Store(extend_map(Self, ext_zone_type))
    /\ old' = Self
    /\ call' = Call("extend_map", <<ext_zone_type>>, <<>>, TRUE)
    /\ ncalls' = ncalls + 1
    /\ pc' = "returned"
    /\ UNCHANGED <<log_odds_hit, log_odds_miss, pos>>

NextExt ==
    \/ \E f \in 0 .. 15 : ExtendMap(f)
    \/ Return

Spec == InitExt /\ [][NextExt]_vars

\* ------------------------------------------------------------ claims on extend_map
Cols == 0 .. width - 1
Rows == 0 .. height - 1
Extended(f) == call.op = "extend_map" /\ call.args = <<f>>
Cell(g, x, y) == g.map_data[index_map(g, x, y)]

\* C1: a single-direction extend_map call shifts the data by exactly EXT_ZONE
\* cells and resets the uncovered strip: LEFT gives new(x,y) = old(x-m,y) for
\* x >= m and the prior for x < m; RIGHT gives new(x,y) = old(x+m,y) for
\* x < W-m and the prior in the last m columns; DOWN gives new(x,y) =
\* old(x,y-m) for y >= m and the prior below; TOP gives new(x,y) = old(x,y+m)
\* for y < H-m and the prior in the top m rows.  No source cell is overwritten
\* before it is read.
C1_SingleDirectionShift ==
    /\ Extended(LEFT) =>
         \A x \in Cols, y \in Rows :
            Cell(Self, x, y) = IF x >= EXT_ZONE THEN Cell(old, x - EXT_ZONE, y)
                               ELSE 0
    /\ Extended(RIGHT) =>
         \A x \in Cols, y \in Rows :
            Cell(Self, x, y) = IF x < width - EXT_ZONE THEN Cell(old, x + EXT_ZONE, y)
                               ELSE 0
    /\ Extended(DOWN) =>
         \A x \in Cols, y \in Rows :
            Cell(Self, x, y) = IF y >= EXT_ZONE THEN Cell(old, x, y - EXT_ZONE)
                               ELSE 0
    /\ Extended(TOP) =>
         \A x \in Cols, y \in Rows :
            Cell(Self, x, y) = IF y < height - EXT_ZONE THEN Cell(old, x, y + EXT_ZONE)
                               ELSE 0

\* a LEFT extension of observed data on a grid so wide that a cell is both
\* the target of one copy and the source of a later one
C1_Witness ==
    /\ Extended(LEFT)
    /\ width > 2 * EXT_ZONE
    /\ Cell(old, EXT_ZONE, 0) # 0
    /\ Cell(Self, 2 * EXT_ZONE, 0) = Cell(old, EXT_ZONE, 0)
    /\ Cell(Self, 0, 0) = 0

\* index that the world cell at old index i has after the call, on one axis
NewIdx(i, axis) == i - (origin[axis] - old.origin[axis]) \div RESOLUTION

\* C2: for every flag combination (opposite flags together included) every
\* world cell covered by the grid before and after the call keeps its value,
\* and only the cells the move newly uncovers hold the prior.
C2_EveryCombinationPreservesOverlap ==
    call.op = "extend_map" =>
        /\ \A x \in Cols, y \in Rows :
              is_in_border(Self, NewIdx(x, 1), NewIdx(y, 2))
              => Cell(Self, NewIdx(x, 1), NewIdx(y, 2)) = Cell(old, x, y)
        /\ \A x \in Cols, y \in Rows :
              (\A ox \in Cols, oy \in Rows : <<NewIdx(ox, 1), NewIdx(oy, 2)>> # <<x, y>>)
              => Cell(Self, x, y) = 0

OppositeFlags(f) ==
    \/ HasFlag(f, LEFT) /\ HasFlag(f, RIGHT)
    \/ HasFlag(f, DOWN) /\ HasFlag(f, TOP)

\* C2 restricted to the calls that set no two opposite flags
C2_OverlapKeptWithoutOppositeFlags ==
    (call.op = "extend_map" /\ ~OppositeFlags(call.args[1]))
    => C2_EveryCombinationPreservesOverlap

\* C5 as stated: after extend_map(RIGHT) the centre of every old cell (x,y)
\* with x < W-m converts, with the new origin, to the index (x-m, y).
C5_RightEveryColumnBelowWMinusM ==
    Extended(RIGHT) =>
        \A x \in Cols, y \in Rows :
            x < width - EXT_ZONE =>
                LET c == idx_to_xy(old, x, y)
                    r == xy_to_idx(Self, c.x, c.y)
                IN  r.idx_x = x - EXT_ZONE /\ r.idx_y = y

\* C5 amended: after extend_map(RIGHT) the centre of every old cell (x,y)
\* with m <= x <= W-1 converts, with the new origin, to the in-bounds index
\* (x-m, y), and the cell there holds the value the old cell (x,y) held.
C5_RightOriginCompensatesShift ==
    Extended(RIGHT) =>
        \A x \in Cols, y \in Rows :
            x >= EXT_ZONE =>
                LET c == idx_to_xy(old, x, y)
                    r == xy_to_idx(Self, c.x, c.y)
                IN  /\ r = [idx_x |-> x - EXT_ZONE, idx_y |-> y, ok |-> TRUE]
                    /\ Cell(Self, x - EXT_ZONE, y) = Cell(old, x, y)

C5_Witness ==
    /\ Extended(RIGHT)
    /\ width > EXT_ZONE
    /\ Cell(old, EXT_ZONE, 0) # 0
    /\ Cell(Self, 0, 0) = Cell(old, EXT_ZONE, 0)
    /\ origin[1] = old.origin[1] + EXT_ZONE * RESOLUTION

\* C6: one call with a horizontal and a vertical flag leaves the grid (origin
\* and every cell) as the two single-flag calls made one after the other do,
\* in either order.
C6_AxisIndependence ==
    \A hf \in {LEFT, RIGHT}, vf \in {DOWN, TOP} :
        Extended(hf + vf) =>
            /\ Self = extend_map(extend_map(old, hf), vf)
            /\ Self = extend_map(extend_map(old, vf), hf)

C6_Witness ==
    /\ Extended(LEFT + DOWN)
    /\ width > EXT_ZONE /\ height > EXT_ZONE
    /\ Cell(old, 0, 0) # 0
    /\ Cell(Self, EXT_ZONE, EXT_ZONE) = Cell(old, 0, 0)
    /\ origin = <<old.origin[1] - EXT_ZONE * RESOLUTION,
                  old.origin[2] - EXT_ZONE * RESOLUTION>>

\* ------------------------------------------------------------ one cell and the sensor
InitCell ==
    \E hit \in -MaxInc .. MaxInc, miss \in -MaxInc .. MaxInc :
        /\ Constructed(1, 1, <<0, 0>>, hit, miss)
        /\ map_data = init(1, 1, <<0, 0>>).map_data
        /\ old = init(1, 1, <<0, 0>>)
        /\ pos = <<0, 0>>
        /\ pc = "idle"

\* GridSensor::set_hit(grid(idx_x, idx_y))
SetHit(idx_x, idx_y) ==
    /\ pc = "idle"
    /\ map_data' = [map_data EXCEPT ![index_map(Self, idx_x, idx_y)] =
                        set_hit(@, log_odds_hit)]
    /\ old' = Self
    /\ call' = Call("update", <<log_odds_hit, idx_x, idx_y>>, <<>>, TRUE)
    /\ pc' = "returned"
    /\ UNCHANGED <<width, height, origin, log_odds_hit, log_odds_miss, pos, ncalls>>

\* GridSensor::set_miss(grid(idx_x, idx_y))
SetMiss(idx_x, idx_y) ==
    /\ pc = "idle"
    /\ map_data' = [map_data EXCEPT ![index_map(Self, idx_x, idx_y)] =
                        set_miss(@, log_odds_miss)]
    /\ old' = Self
    /\ call' = Call("update", <<log_odds_miss, idx_x, idx_y>>, <<>>, TRUE)
    /\ pc' = "returned"
    /\ UNCHANGED <<width, height, origin, log_odds_hit, log_odds_miss, pos, ncalls>>

\* grid(idx_x, idx_y).reset_value()
ResetValue(idx_x, idx_y) ==
    /\ pc = "idle"
    /\ map_data' = [map_data EXCEPT ![index_map(Self, idx_x, idx_y)] = reset_value]
    /\ old' = Self
    /\ call' = Call("reset_value", <<idx_x, idx_y>>, <<>>, TRUE)
    /\ pc' = "returned"
    /\ UNCHANGED <<width, height, origin, log_odds_hit, log_odds_miss, pos, ncalls>>

NextCell ==
    \/ \E x \in Cols, y \in Rows : SetHit(x, y)
    \/ \E x \in Cols, y \in Rows : SetMiss(x, y)
    \/ \E x \in Cols, y \in Rows : ResetValue(x, y)
    \/ Return

SpecCell == InitCell /\ [][NextCell]_vars

LargestPositive == Max(0, Max(log_odds_hit, log_odds_miss))
MostNegative == Min(0, Min(log_odds_hit, log_odds_miss))

\* C7: from the prior 0, under any sequence of updates and resets with the
\* sensor's increments, a cell stays strictly below 50 + the largest positive
\* increment and strictly above -50 + the most negative one; a positive
\* increment is applied iff the value is < 50, a negative one iff it is > -50
\* (so always on a positively saturated cell), and a zero increment changes
\* nothing.
C7_SaturatingAccumulation ==
    /\ \A i \in DOMAIN map_data :
          /\ map_data[i] < SATURATION + LargestPositive
          /\ map_data[i] > -SATURATION + MostNegative
    /\ call.op = "update" =>
          LET d == call.args[1]
              i == index_map(Self, call.args[2], call.args[3])
              before == old.map_data[i]
              after == map_data[i]
          IN  /\ d > 0 => (after = IF before < SATURATION THEN before + d ELSE before)
              /\ d < 0 => (after = IF before > -SATURATION THEN before + d ELSE before)
              /\ (d < 0 /\ before >= SATURATION) => after = before + d
              /\ d = 0 => after = before

\* a miss registered on a cell that further hits no longer change
C7_Witness ==
    /\ call.op = "update"
    /\ call.args[1] < 0
    /\ old.map_data[0] >= SATURATION
    /\ update(old.map_data[0], log_odds_hit) = old.map_data[0]
    /\ map_data[0] = old.map_data[0] + call.args[1]

\* ------------------------------------------------------------ coordinate queries
\* centres handed to reset_map
Centers == {<<1, 0>>, <<0, -1>>}

InitQuery ==
    \E w \in 1 .. MaxQueryWidth, h \in 1 .. MaxQueryHeight :
        /\ Constructed(w, h, <<0, 0>>, 1, -1)
        /\ map_data = init(w, h, <<0, 0>>).map_data
        /\ old = init(w, h, <<0, 0>>)
        /\ pos = <<0, 0>>
        /\ pc = "idle"

ResetMap(p) ==
    /\ pc = "idle"
    /\ ncalls < MaxCalls
    /\ Store(reset_map(Self, p))
    /\ old' = Self
    /\ call' = Call("reset_map", p, <<>>, TRUE)
    /\ ncalls' = ncalls + 1
    /\ pc' = "returned"
    /\ UNCHANGED <<log_odds_hit, log_odds_miss, pos>>

\* a const member function: the call and what it returned are recorded
Query(op, args, out, ok) ==
    /\ pc = "idle"
    /\ call' = Call(op, args, out, ok)
    /\ old' = Self
    /\ pc' = "returned"
    /\ UNCHANGED <<width, height, origin, map_data, log_odds_hit, log_odds_miss,
                   pos, ncalls>>

XyToIdx(x, y) ==
    LET r == xy_to_idx(Self, x, y)
    IN  Query("xy_to_idx", <<x, y>>, <<r.idx_x, r.idx_y>>, r.ok)

IsInBorderXY(x, y) ==
    Query("is_in_border", <<x, y>>, <<>>, is_in_border_xy(Self, x, y))

IdxToXy(idx_x, idx_y) ==
    LET c == idx_to_xy(Self, idx_x, idx_y)
    IN  Query("idx_to_xy", <<idx_x, idx_y>>, <<c.x, c.y>>, c.ok)

NextQuery ==
    \/ \E f \in 0 .. 15 : ExtendMap(f)
    \/ \E p \in Centers : ResetMap(p)
    \/ \E x \in WorldXs, y \in WorldYs : XyToIdx(x, y)
    \/ \E x \in WorldXs, y \in WorldYs : IsInBorderXY(x, y)
    \/ \E ix \in -1 .. width, iy \in -1 .. height : IdxToXy(ix, iy)
    \/ Return

SpecQuery == InitQuery /\ [][NextQuery]_vars

\* the grid's world rectangle [origin, origin + size * resolution)
InRectangle(g, x, y) ==
    /\ g.origin[1] <= x /\ x < g.origin[1] + RESOLUTION * g.width
    /\ g.origin[2] <= y /\ y < g.origin[2] + RESOLUTION * g.height

\* C3: xy_to_idx returns floor((x - origin.x)/resolution),
\* floor((y - origin.y)/resolution) and reports success iff the position lies
\* in the grid's world rectangle; a position less than one cell left of or
\* below the origin is out of bounds.  is_in_border(x, y) answers the same.
C3_SuccessIffInsideRectangle ==
    /\ call.op = "xy_to_idx" =>
          /\ call.ok <=> InRectangle(Self, call.args[1], call.args[2])
          /\ call.ok => call.out = <<FloorDiv(call.args[1] - origin[1], RESOLUTION),
                                     FloorDiv(call.args[2] - origin[2], RESOLUTION)>>
    /\ call.op = "is_in_border" =>
          (call.ok <=> InRectangle(Self, call.args[1], call.args[2]))

\* C3 on the positions at or beyond the origin on both axes
C3_HoldsFromOriginOn ==
    (/\ call.op \in {"xy_to_idx", "is_in_border"}
     /\ call.args[1] >= origin[1]
     /\ call.args[2] >= origin[2])
    => C3_SuccessIffInsideRectangle

\* C8: for every in-bounds index pair, under any origin, xy_to_idx of the
\* cell centre idx_to_xy returns gives the pair back and reports success;
\* idx_to_xy reports true exactly for the in-bounds pairs.
C8_RoundTrip ==
    call.op = "idx_to_xy" =>
        /\ call.ok <=> (call.args[1] \in Cols /\ call.args[2] \in Rows)
        /\ (call.args[1] \in Cols /\ call.args[2] \in Rows) =>
              xy_to_idx(Self, call.out[1], call.out[2])
                  = [idx_x |-> call.args[1], idx_y |-> call.args[2], ok |-> TRUE]

\* the centre of the last cell of a grid whose origin a call has moved
C8_Witness ==
    /\ call.op = "idx_to_xy"
    /\ call.args = <<width - 1, height - 1>>
    /\ width > 1 /\ height > 1
    /\ ncalls > 0
    /\ origin # init(width, height, <<0, 0>>).origin
    /\ call.ok

Clamp(i, n) == IF i < 0 THEN 0 ELSE IF i > n - 1 THEN n - 1 ELSE i

\* C9: for every world position the index pair xy_to_idx returns lies in
\* [0, width-1] x [0, height-1]; on failure it is the component-wise clamp of
\* the unclamped index onto that range; the call changes nothing in the grid.
C9_ReturnedIndexInRange ==
    call.op = "xy_to_idx" =>
        /\ call.out[1] \in Cols /\ call.out[2] \in Rows
        /\ ~call.ok =>
              /\ call.out[1] = Clamp(FloorDiv(call.args[1] - origin[1], RESOLUTION), width)
              /\ call.out[2] = Clamp(FloorDiv(call.args[2] - origin[2], RESOLUTION), height)
        /\ Self = old

\* a position beyond the bottom right corner, attributed to the corner cell
C9_Witness ==
    /\ call.op = "xy_to_idx"
    /\ ~call.ok
    /\ call.args[1] >= origin[1] + RESOLUTION * width
    /\ call.args[2] <= origin[2] - RESOLUTION
    /\ call.out = <<width - 1, 0>>
    /\ width > 1

\* ------------------------------------------------------------ per-cycle maintenance
\* is_in_ext_zone(pos), then extend_map(flags), once per pose update, for an
\* agent that stands still at pos
InitCycle ==
    \E w \in 1 .. MaxWidth, h \in 1 .. MaxHeight :
        LET g == Observed(init(w, h, <<0, 0>>))
        IN  /\ Constructed(w, h, <<0, 0>>, 1, -1)
            /\ map_data = g.map_data
            /\ old = g
            /\ pos \in WorldXs \X WorldYs
            /\ pc = "check"

IsInExtZone ==
    /\ pc = "check"
    /\ call' = Call("is_in_ext_zone", pos, <<is_in_ext_zone(Self, pos)>>, TRUE)
    /\ old' = Self
    /\ pc' = "extend"
    /\ UNCHANGED <<width, height, origin, map_data, log_odds_hit, log_odds_miss,
                   pos, ncalls>>

ExtendMapByZone ==
    /\ pc = "extend"
    /\ Store(extend_map(Self, call.out[1]))
    /\ old' = Self
    /\ call' = Call("extend_map", <<call.out[1]>>, <<>>, TRUE)
    /\ pc' = "check"
    /\ UNCHANGED <<log_odds_hit, log_odds_miss, pos, ncalls>>

NextCycle == IsInExtZone \/ ExtendMapByZone

SpecCycle == InitCycle /\ [][NextCycle]_vars

\* C4 for the positions inside the grid: the flags are exactly LEFT iff
\* idx_x < EXT_ZONE, RIGHT iff idx_x >= width - EXT_ZONE, DOWN iff
\* idx_y < EXT_ZONE, TOP iff idx_y >= height - EXT_ZONE.
C4_FlagsExactInside ==
    (call.op = "is_in_ext_zone" /\ InRectangle(Self, pos[1], pos[2])) =>
        LET f == call.out[1]
            ix == FloorDiv(pos[1] - origin[1], RESOLUTION)
            iy == FloorDiv(pos[2] - origin[2], RESOLUTION)
        IN  /\ f \in 0 .. 15
            /\ HasFlag(f, LEFT) <=> ix < EXT_ZONE
            /\ HasFlag(f, RIGHT) <=> ix >= width - EXT_ZONE
            /\ HasFlag(f, DOWN) <=> iy < EXT_ZONE
            /\ HasFlag(f, TOP) <=> iy >= height - EXT_ZONE

\* C4: is_in_ext_zone returns, inside the grid, exactly the OR of the four
\* proximity flags, and NONE for every position outside the grid's world
\* rectangle, so that the extend_map call that follows changes neither the
\* origin nor the cells.
C4_FlagsExactAndNoneOutside ==
    /\ C4_FlagsExactInside
    /\ (call.op = "is_in_ext_zone" /\ ~InRectangle(Self, pos[1], pos[2]))
          => call.out[1] = NONE
    /\ (call.op = "extend_map" /\ ~InRectangle(old, pos[1], pos[2]))
          => Self = old

\* C10: for an agent standing at an in-bounds position, one cycle
\* (is_in_ext_zone, then extend_map) leaves the position in-bounds and outside
\* every boundary zone, whatever the grid size, so the next is_in_ext_zone
\* returns NONE and the grid never changes again.
C10_OneCycleRecentres ==
    (call.op = "extend_map" /\ InRectangle(old, pos[1], pos[2])) =>
        /\ InRectangle(Self, pos[1], pos[2])
        /\ is_in_ext_zone(Self, pos) = NONE

\* C10 on the grids at least three margins wide and high
C10_RecentresFromThreeMargins ==
    (width >= 3 * EXT_ZONE /\ height >= 3 * EXT_ZONE) => C10_OneCycleRecentres

====
